---------------------------- MODULE Spec2Model ----------------------------
(***************************************************************************)
(* Model of the off-chain authorization backend (src/server.js, the direct *)
(* pull variant, and src/unnamed/part_000, the Permit2 variant).  The two  *)
(* files share the routes /get-signature-request, /authorize and           *)
(* /transfer-tokens step for step; they differ in the pull that            *)
(* /transfer-tokens submits.  Every await of a handler ends one atomic     *)
(* step of the model: the code that runs between two awaits runs without   *)
(* interleaving on the Node.js event loop.                                 *)
(***************************************************************************)
EXTENDS Integers, Sequences, FiniteSets, TLC

(* ------------------------------ bounds ------------------------------- *)
\* how many seconds the clock may advance in a run
MaxTicks == 1
\* the nonces Math.random() is drawn from are 1..MaxNonce
MaxNonce == 1
\* token decimals reported by the chain (tokenContract.decimals())
TokenDecimals == 1
\* how many calls the clients make to the /api/wallet routes in a run
MaxWalletCalls == 4

(* -------------------------- program constants ------------------------ *)
\* 24 hours, the validity window of a challenge
DeadlineWindow == 86400
\* 0x + 130 hex characters
ExpectedSignatureLength == 132
\* ethers.MaxUint256, capped to TLC's integers; only ever compared with amounts
MaxUint256 == 2147483647

UserA == "0xAa"
UserB == "0xBb"
Users == {UserA, UserB}
Wallet == "wallet"
Treasury == "treasury"
TREASURY_PULLER_ADDRESS == "puller"
PERMIT2_ADDRESS == "permit2"
TOKEN_ADDRESS == "token"
Requests == {1, 2}

\* what a request body holds for userAddress when the field is absent, and a
\* string that is no address
MissingAddress == ""
MalformedAddress == "0xZz"

\* ethers.isAddress(userAddress)
\* The lower-case hex spelling of UserA: the same account, another string.
UserALower == "0xaa"

\* The chain resolves every spelling of an address to one account.
Account(a) == IF a = UserALower THEN UserA ELSE a

isAddress(a) == Account(a) \in Users

\* the chain ids the node may report
ChainIds == {1, 137}

RECURSIVE Pow10(_)
Pow10(n) == IF n = 0 THEN 1 ELSE 10 * Pow10(n - 1)

\* one whole token in smallest units
Unit == Pow10(TokenDecimals)

(* ---------------------- amounts: parseUnits ------------------------- *)
\* A human amount is the string a client sends as amount: [-]whole.frac when
\* it is numeric, frac being its sequence of fractional digits; any other
\* string is not numeric.
Amount(negative, whole, frac) ==
    [numeric |-> TRUE, negative |-> negative, whole |-> whole, frac |-> frac]

NotANumber == [numeric |-> FALSE, negative |-> FALSE, whole |-> 0, frac |-> <<>>]

\* the amounts of the transfer calls: "1" and "2"
HumanAmounts == { Amount(FALSE, 1, <<>>), Amount(FALSE, 2, <<>>) }

\* the amounts sent to /get-signature-request when its answers are looked
\* at: "1", "1.5", "1.25", "-1" and "abc"
ChallengeAmounts ==
    { Amount(FALSE, 1, <<>>), Amount(FALSE, 1, <<5>>), Amount(FALSE, 1, <<2, 5>>),
      Amount(TRUE, 1, <<>>), NotANumber }

RECURSIVE DigitsValue(_)
DigitsValue(ds) ==
    IF ds = <<>> THEN 0 ELSE 10 * DigitsValue(SubSeq(ds, 1, Len(ds) - 1)) + ds[Len(ds)]

\* a faulty scaling that takes the whole part of the amount only
parseUnitsWhole(h, decimals) ==
    IF ~h.numeric \/ Len(h.frac) > decimals
    THEN [ok |-> FALSE, v |-> 0]
    ELSE [ok |-> TRUE,
          v  |-> (IF h.negative THEN -1 ELSE 1) * h.whole * Pow10(decimals)]

\* ethers.parseUnits(amount, decimals): throws when the string is not
\* numeric or has more fractional digits than decimals; otherwise the signed
\* integer whole * 10^decimals + frac padded on the right to decimals digits.
\* A leading minus sign is accepted.
parseUnits(h, decimals) ==
    IF ~h.numeric \/ Len(h.frac) > decimals
    THEN [ok |-> FALSE, v |-> 0]
    ELSE [ok |-> TRUE,
          v  |-> (IF h.negative THEN -1 ELSE 1)
                 * (h.whole * Pow10(decimals)
                    + DigitsValue(h.frac) * Pow10(decimals - Len(h.frac)))]

(* --------------------- signatures and signed values ------------------ *)
\* A signature as the client sends it: its length in characters and, as a
\* property of the bytes, the address that produced it (none for a string
\* that is no signature at all).
SigA == [signer |-> UserA, len |-> 132]
SigB == [signer |-> UserB, len |-> 132]
SigShort == [signer |-> "none", len |-> 120]
Signatures == {SigA, SigB, SigShort}

NoSignature == [signer |-> "none", len |-> 0]

\* The value object of a request body.  shape "challenge" is the object
\* /get-signature-request returns (amount at top level, no permitted);
\* shape "permit2" carries permitted.amount and no top-level amount.
\* amountIsString says whether the amount is the JSON string of its decimal
\* digits (or a JSON number); nonceNumeric / deadlineNumeric say whether
\* Number(field) is a number, and deadline is then that number;
\* deadlineNumeral says whether the field is a number or a string of digits
\* (null and the empty string are neither, and convert to the number 0).
Value(shape, amount, amountIsString, nonce, nonceNumeric, deadline, deadlineNumeric) ==
    [shape |-> shape, amount |-> amount, amountIsString |-> amountIsString,
     nonce |-> nonce, nonceNumeric |-> nonceNumeric, deadline |-> deadline,
     deadlineNumeric |-> deadlineNumeric, deadlineNumeral |-> deadlineNumeric]

NoValue == Value("none", 0, FALSE, 0, FALSE, 0, FALSE)

\* values a client may craft without asking the server for a challenge:
\* Permit2-shaped ones (one that stays valid, one whose deadline is the
\* second the server starts in, one whose nonce and deadline are not
\* numbers, one whose amount is a JSON number) and one with the fields of a
\* challenge
PermitValid == Value("permit2", Unit, TRUE, 1, TRUE, DeadlineWindow, TRUE)
PermitExpiring == Value("permit2", Unit, TRUE, 1, TRUE, 1, TRUE)
PermitNotNumeric == Value("permit2", Unit, TRUE, 1, FALSE, 0, FALSE)
PermitNumberAmount == Value("permit2", Unit, FALSE, 1, TRUE, DeadlineWindow, TRUE)
ChallengeLike == Value("challenge", Unit, TRUE, 1, TRUE, DeadlineWindow, TRUE)
CraftedValues ==
    {PermitValid, PermitExpiring, PermitNotNumeric, PermitNumberAmount, ChallengeLike}

\* a Permit2-shaped value whose deadline is the empty string
PermitEmptyDeadline ==
    [Value("permit2", Unit, TRUE, 1, TRUE, 0, TRUE) EXCEPT !.deadlineNumeral = FALSE]


(* ------------------------------- state ------------------------------- *)
VARIABLES
    variant,         \* "direct" (src/server.js) or "permit2" (part_000)
    clients,         \* what the clients send: how many transfers, for which
                     \* users, with which signatures and values, whether
                     \* they send back challenges, whether they authorize
                     \* and ask for challenges only before they transfer
                     \* (settled), which answers they keep and which
                     \* amounts they ask challenges for
    now,             \* Math.floor(Date.now() / 1000)
    userSignatures,  \* the Map userSignatures: a function on its keys
    challenge,       \* the last value /get-signature-request returned
    gsr,             \* the last exchange with /get-signature-request, and
    auth,            \* with /authorize, where the clients keep the answers
    balanceOf,       \* chain: token balances
    allowance,       \* chain: token allowances, <<owner, spender>>
    usedNonces,      \* chain: Permit2 nonce bitmap, <<owner, nonce>>
    req,             \* the /transfer-tokens calls, by request
    wallet           \* global.signatureRequest and global.walletStatus of
                     \* part_000, with the last call to the /api/wallet
                     \* routes and its answer

vars == << variant, clients, wallet, gsr, auth, now, userSignatures, challenge, balanceOf,
           allowance, usedNonces, req >>

Owners == Users \cup {Wallet}
Spenders == {TREASURY_PULLER_ADDRESS, PERMIT2_ADDRESS}

\* what userSignatures.get returns for a key that was never set, and the
\* content of the local userSignatureData before the lookup
NoSignatureData == [signature |-> NoSignature, value |-> NoValue]

NoPull ==
    [submitted |-> FALSE, fn |-> "none", user |-> "none", token |-> "none",
     amount |-> 0, deadline |-> 0, nonce |-> 0, signature |-> NoSignature,
     hasPermit |-> FALSE, calledAt |-> 0, outcome |-> "none", receipt |-> FALSE]

NoResponse ==
    [status |-> 0, error |-> "none", signedAmount |-> 0, requestedAmount |-> 0,
     expiredBy |-> 0, shortfall |-> 0, approvalRequired |-> FALSE,
     userAfter |-> 0, treasuryReceived |-> 0, userBalance |-> 0, allowance |-> 0]

Response(status, error) == [NoResponse EXCEPT !.status = status, !.error = error]

\* the locals of one /transfer-tokens call; writes, chainRead, rpcFailed and
\* approvalFailed record what the call did to the chain, whether it has read
\* from the chain, whether a chain call of it failed and whether that call
\* was an approval; preconditionReadFailed whether a read of the balance or
\* of an allowance failed; expiredAtStart whether the store held an expired
\* record for the user when the call arrived
IdleRequest ==
    [pc |-> "idle", userAddress |-> "none", amount |-> Amount(FALSE, 0, <<>>),
     allowance |-> 0, userBalance |-> 0, decimals |-> 0, transferAmount |-> 0,
     approvalTx |-> FALSE, treasuryBalanceBefore |-> 0,
     userSignatureData |-> NoSignatureData, lookedUp |-> FALSE,
     currentTime |-> 0, pull |-> NoPull, writes |-> <<>>, rpcFailed |-> FALSE,
     expiredAtStart |-> FALSE, chainRead |-> FALSE,
     approvalFailed |-> FALSE, preconditionReadFailed |-> FALSE,
     response |-> NoResponse]

\* the outcome of a chain read
Read(v) == [ok |-> TRUE, v |-> v]
ReadFailed == [ok |-> FALSE, v |-> 0]

\* one exchange with /get-signature-request: the body of the request, the
\* chain calls the handler made for it, whether one of them failed, and the
\* answer (status, error, value and domain.chainId)
NoSignatureRequest ==
    [userAddress |-> "none", amount |-> Amount(FALSE, 0, <<>>), status |-> 0,
     error |-> "none", chainCalls |-> <<>>, rpcFailed |-> FALSE,
     network |-> ReadFailed, value |-> NoValue, chainId |-> 0]

\* one exchange with /authorize: the body of the request, the chain calls
\* the handler made for it, whether one of them failed, and the answer
NoAuthorize ==
    [userAddress |-> "none", signature |-> NoSignature, value |-> NoValue,
     status |-> 0, error |-> "none", chainCalls |-> <<>>, rpcFailed |-> FALSE]

\* The chain at start.  UserA holds two tokens, its allowance to the
\* treasury puller is a and to Permit2 is p.  UserB holds one token, has
\* allowed the puller and has not allowed Permit2.
InitChain(a, p) ==
    /\ balanceOf = (UserA :> 2 * Unit) @@ (UserB :> Unit) @@ (Treasury :> 0)
    /\ allowance = [k \in Owners \X Spenders |->
                      IF k[1] = Wallet THEN 0
                      ELSE IF k[2] = TREASURY_PULLER_ADDRESS
                           THEN (IF k[1] = UserA THEN a ELSE 2 * Unit)
                           ELSE (IF k[1] = UserA THEN p ELSE 0)]
    /\ usedNonces = {}

\* global.signatureRequest while it is undefined (and the answer null)
NoWalletRequest ==
    [walletAddress |-> "none", timestamp |-> 0, status |-> "none", completedAt |-> 0]

\* global.walletStatus while it is undefined
NoWalletStatus ==
    [walletAddress |-> "none", status |-> "none", signature |-> "none",
     lastSignatureAt |-> 0]

\* The two globals; the route of the last call to /api/wallet, its HTTP
\* status and, for GET /api/wallet/signature-request, its body; the number
\* of calls made; and outstanding, a history variable: the address of the
\* last request-signature that was accepted, "none" once a
\* signature-completed call has followed it.
NoWallet ==
    [signatureRequest |-> NoWalletRequest, walletStatus |-> NoWalletStatus,
     last |-> "none", status |-> 0, answer |-> NoWalletRequest, calls |-> 0,
     outstanding |-> "none"]

\* The /api/wallet routes share no state with the three token routes (they
\* read and write the two globals only), so a run of the model exercises the
\* ones or the others: the token routes are called while no wallet call has
\* been made, the wallet routes while no token call has been made.
WalletQuiet == wallet = NoWallet

TokenRoutesQuiet ==
    /\ userSignatures = << >> /\ challenge = NoValue
    /\ gsr = NoSignatureRequest /\ auth = NoAuthorize
    /\ \A r \in Requests : req[r].pc = "idle"

InitServer ==
    /\ now = 1
    /\ wallet = NoWallet
    /\ userSignatures = << >>
    /\ challenge = NoValue
    /\ gsr = NoSignatureRequest
    /\ auth = NoAuthorize
    /\ req = [r \in Requests |-> IdleRequest]

\* the allowances UserA starts with: <<to the puller, to Permit2>>
InitAllowances == {<<0, 2 * Unit>>, <<Unit, 0>>, <<2 * Unit, 2 * Unit>>}

\* one transfer call of UserA; any signature, any crafted value
Init ==
    /\ variant \in {"direct", "permit2"}
    /\ clients = [transfers |-> 1, users |-> {UserA}, signatures |-> Signatures,
                  values |-> CraftedValues, challenges |-> FALSE,
                  transferUsers |-> <<{UserA}, {UserA}>>, settled |-> FALSE,
                  keeps |-> {}, amounts |-> HumanAmounts]
    /\ InitServer
    /\ \E c \in InitAllowances : InitChain(c[1], c[2])

\* one transfer call; the client sends back the challenges it gets, or the
\* Permit2-shaped value that stays valid
InitChallenge ==
    /\ variant \in {"direct", "permit2"}
    /\ clients = [transfers |-> 1, users |-> {UserA}, signatures |-> Signatures,
                  values |-> {PermitValid}, challenges |-> TRUE,
                  transferUsers |-> <<{UserA}, {UserA}>>, settled |-> FALSE,
                  keeps |-> {}, amounts |-> HumanAmounts]
    /\ InitServer
    /\ \E c \in InitAllowances : InitChain(c[1], c[2])

\* one transfer call of UserA or of UserB, made after the clients have
\* authorized
InitSettled ==
    /\ variant \in {"direct", "permit2"}
    /\ clients = [transfers |-> 1, users |-> Users, signatures |-> {SigA, SigShort},
                  values |-> CraftedValues \cup {PermitEmptyDeadline},
                  challenges |-> FALSE,
                  transferUsers |-> <<Users, {}>>, settled |-> TRUE,
                  keeps |-> {}, amounts |-> HumanAmounts]
    /\ InitServer
    /\ \E c \in InitAllowances : InitChain(c[1], c[2])

\* a transfer call of UserA and one of UserB, which may overlap, made after
\* both have authorized
InitTwoUsers ==
    /\ variant \in {"direct", "permit2"}
    /\ clients = [transfers |-> 2, users |-> Users, signatures |-> {SigA},
                  values |-> {PermitValid}, challenges |-> FALSE,
                  transferUsers |-> <<{UserA}, {UserB}>>, settled |-> TRUE,
                  keeps |-> {}, amounts |-> HumanAmounts]
    /\ InitServer
    /\ InitChain(Unit, 2 * Unit)

\* two transfer calls of UserA, which may overlap, on a well-formed
\* authorization
InitSameUser ==
    /\ variant \in {"direct", "permit2"}
    /\ clients = [transfers |-> 2, users |-> {UserA}, signatures |-> {SigA},
                  values |-> {PermitValid}, challenges |-> FALSE,
                  transferUsers |-> <<{UserA}, {UserA}>>, settled |-> FALSE,
                  keeps |-> {}, amounts |-> HumanAmounts]
    /\ InitServer
    /\ \E p \in {0, 2 * Unit} : InitChain(Unit, p)

\* one transfer call, made after the clients have authorized; the clients
\* keep the answers of /authorize, to which they send well-formed bodies for either user and bodies with a missing
\* field or with a string that is no address
InitAuthorize ==
    /\ variant \in {"direct", "permit2"}
    /\ clients = [transfers |-> 1,
                  users |-> Users \cup {MissingAddress, MalformedAddress},
                  signatures |-> {SigA, NoSignature},
                  values |-> {PermitValid, PermitExpiring, NoValue},
                  challenges |-> FALSE,
                  transferUsers |-> <<{UserA, UserALower, MissingAddress,
                                      MalformedAddress}, {}>>,
                  settled |-> TRUE,
                  keeps |-> {"/authorize"}, amounts |-> HumanAmounts]
    /\ InitServer
    /\ InitChain(Unit, 0)

\* one transfer call, made after the clients have authorized and have asked
\* for challenges; the clients keep the answers of /get-signature-request
\* (and send back none of the challenges), to which they send amounts with
\* and without a fraction, a negative one and one that is no number, for a
\* user, for no user and for a string that is no address
InitSignatureRequest ==
    /\ variant \in {"direct", "permit2"}
    /\ clients = [transfers |-> 1,
                  users |-> {UserA, MissingAddress, MalformedAddress},
                  signatures |-> {SigA},
                  values |-> {PermitValid},
                  challenges |-> FALSE,
                  transferUsers |-> <<{UserA}, {}>>,
                  settled |-> TRUE,
                  keeps |-> {"/get-signature-request"}, amounts |-> ChallengeAmounts]
    /\ InitServer
    /\ InitChain(Unit, 0)

(* ------------------------------ the clock ---------------------------- *)
\* a faulty server whose clock evicts the records whose deadline has passed
TickEvicting ==
    /\ now <= MaxTicks
    /\ now' = now + 1
    /\ userSignatures' =
          [k \in {u \in DOMAIN userSignatures :
                    ~ ( /\ userSignatures[u].value.deadlineNumeric
                        /\ now' > userSignatures[u].value.deadline )}
             |-> userSignatures[k]]
    /\ UNCHANGED << variant, clients, wallet, gsr, auth, challenge, balanceOf,
                    allowance, usedNonces, req >>

\* a second passes, between any two steps
Tick ==
    /\ now <= MaxTicks
    /\ now' = now + 1
    /\ UNCHANGED << variant, clients, wallet, gsr, auth, userSignatures, challenge, balanceOf,
                    allowance, usedNonces, req >>

(* ----------------------- /get-signature-request ---------------------- *)
\* the error strings of the validation of the three routes, and of the
\* catch blocks that answer 500 with the message of the exception
InvalidUserAddress == "Missing or invalid userAddress"
MissingAuthorizeFields == "Missing required fields (userAddress, signature, value)"
MissingTransferFields == "Missing required fields: userAddress, amount"
InvalidAddressFormat == "Invalid user address format"
InternalError == "err.message"

\* a faulty value whose deadline is one hour after the clock reading, the
\* window /authorize computes, and not the 24 hours of the challenge
ChallengeValueOneHour(amountScaled, nonce, deadline) ==
    Value("challenge", amountScaled, TRUE, nonce, TRUE,
          deadline - DeadlineWindow + 3600, TRUE)

\* the value object of the response
ChallengeValue(amountScaled, nonce, deadline) ==
    Value("challenge", amountScaled, TRUE, nonce, TRUE, deadline, TRUE)

\* The answer of the handler to the body {userAddress: u, amount: h}, when
\* decimals() and getNetwork() answer decimals and network, Math.random()
\* gives n and the clock reads clock: 400 before any chain call for a missing
\* or malformed address; 500 when a chain read fails or parseUnits throws;
\* otherwise the typed data, with the scaled amount, the deadline and the
\* chain id just read.
SignatureRequestAnswer(u, h, n, decimals, network, clock) ==
    LET scaled == parseUnits(h, decimals.v)
        a == [NoSignatureRequest EXCEPT !.userAddress = u, !.amount = h]
    IN  IF u = MissingAddress \/ ~isAddress(u)
        THEN [a EXCEPT !.status = 400, !.error = InvalidUserAddress]
        ELSE IF ~decimals.ok
        THEN [a EXCEPT !.status = 500, !.error = InternalError,
                       !.chainCalls = <<"decimals">>, !.rpcFailed = TRUE]
        ELSE IF ~scaled.ok
        THEN [a EXCEPT !.status = 500, !.error = InternalError,
                       !.chainCalls = <<"decimals">>]
        ELSE IF ~network.ok
        THEN [a EXCEPT !.status = 500, !.error = InternalError,
                       !.chainCalls = <<"decimals", "getNetwork">>,
                       !.rpcFailed = TRUE]
        ELSE [a EXCEPT !.status = 200,
                       !.chainCalls = <<"decimals", "getNetwork">>,
                       !.network = network,
                       !.value = ChallengeValue(scaled.v, n, clock + DeadlineWindow),
                       !.chainId = network.v]

\* a faulty handler that keeps each challenge it issues in the store, under
\* the address it was asked for
GetSignatureRequestStoring ==
    /\ WalletQuiet
    /\ clients.settled => \A r \in Requests : req[r].pc = "idle"
    /\ \E u \in clients.users, h \in clients.amounts, n \in 1..MaxNonce,
          decimals \in {ReadFailed, Read(TokenDecimals)},
          network \in {ReadFailed} \cup {Read(c) : c \in ChainIds} :
         LET a == SignatureRequestAnswer(u, h, n, decimals, network, now) IN
         /\ clients.challenges \/ "/get-signature-request" \in clients.keeps
         /\ challenge' = IF clients.challenges /\ a.status = 200
                          THEN a.value ELSE challenge
         /\ gsr' = IF "/get-signature-request" \in clients.keeps THEN a ELSE gsr
         /\ userSignatures' =
               IF a.status = 200
               THEN [k \in (DOMAIN userSignatures) \cup {u} |->
                       IF k = u THEN [signature |-> NoSignature, value |-> a.value]
                       ELSE userSignatures[k]]
               ELSE userSignatures
    /\ UNCHANGED << variant, clients, wallet, auth, now, balanceOf, allowance,
                    usedNonces, req >>

\* The handler reads decimals(), scales the amount, takes the clock and a
\* random nonce, reads the network and answers.  It writes nothing and reads
\* no state of the server but the clock, so it acts at the instant it takes
\* the clock; a failed chain read or an amount parseUnits rejects gives a 500
\* and no challenge.  challenge is the value the client keeps from the last
\* answer that carried one; gsr is the whole exchange.
GetSignatureRequest ==
    /\ WalletQuiet
    /\ clients.settled => \A r \in Requests : req[r].pc = "idle"
    /\ \/ UNCHANGED << challenge, gsr >>
       \/ \E u \in clients.users, h \in clients.amounts, n \in 1..MaxNonce,
             decimals \in {ReadFailed, Read(TokenDecimals)},
             network \in {ReadFailed} \cup {Read(c) : c \in ChainIds} :
            LET a == SignatureRequestAnswer(u, h, n, decimals, network, now) IN
            /\ clients.challenges \/ "/get-signature-request" \in clients.keeps
            /\ challenge' = IF clients.challenges /\ a.status = 200
                             THEN a.value ELSE challenge
            /\ gsr' = IF "/get-signature-request" \in clients.keeps THEN a ELSE gsr
    /\ UNCHANGED << variant, clients, wallet, auth, now, userSignatures, balanceOf, allowance,
                    usedNonces, req >>

(* ------------------------------ /authorize --------------------------- *)
\* the record userSignatures.set stores
\* (its timestamp field, which no code reads, is left out)
SignatureData(signature, value) == [signature |-> signature, value |-> value]

\* a faulty store that keeps one record for all the addresses it holds
MapSetAll(map, key, data) == [k \in (DOMAIN map) \cup {key} |-> data]

\* userSignatures.set(userAddress, ...)
MapSet(map, key, data) ==
    [k \in (DOMAIN map) \cup {key} |-> IF k = key THEN data ELSE map[k]]

\* the values a client can send: crafted ones and the challenge it holds
ClientValues == clients.values \cup (IF challenge = NoValue THEN {} ELSE {challenge})

\* The answer of the handler to the body {userAddress: u, signature: s,
\* value: v} when treasuryPuller.treasury() answers treasury: 400 before any
\* chain call when a field is missing (an empty string counts as missing),
\* 500 when the contract cannot be read, 200 otherwise.  The address is not
\* looked at beyond its presence.
AuthorizeAnswer(u, s, v, treasury) ==
    LET a == [NoAuthorize EXCEPT !.userAddress = u, !.signature = s, !.value = v]
    IN  IF u = MissingAddress \/ s = NoSignature \/ v = NoValue
        THEN [a EXCEPT !.status = 400, !.error = MissingAuthorizeFields]
        ELSE IF ~treasury.ok
        THEN [a EXCEPT !.status = 500, !.error = InternalError,
                       !.chainCalls = <<"treasury">>, !.rpcFailed = TRUE]
        ELSE [a EXCEPT !.status = 200, !.chainCalls = <<"treasury">>]

\* a faulty handler that stores the record before it probes the contract, so
\* that a call answered 500 has replaced the record
AuthorizeStoringFirst ==
    /\ WalletQuiet
    /\ clients.settled => \A r \in Requests : req[r].pc = "idle"
    /\ \/ UNCHANGED << userSignatures, auth >>
       \/ \E u \in clients.users, s \in clients.signatures, v \in ClientValues,
             treasury \in {ReadFailed, Read(1)} :
            LET a == AuthorizeAnswer(u, s, v, treasury) IN
            /\ userSignatures' = IF a.status # 400
                                  THEN MapSet(userSignatures, u, SignatureData(s, v))
                                  ELSE userSignatures
            /\ auth' = IF "/authorize" \in clients.keeps THEN a ELSE auth
    /\ UNCHANGED << variant, clients, wallet, gsr, now, challenge, balanceOf, allowance,
                    usedNonces, req >>

\* The handler checks that the three fields are present, awaits
\* treasuryPuller.treasury() and stores the record; the signature is not
\* looked at.  Its only await precedes its only write and nothing before it
\* reads the store, so it acts at the instant of the write; when treasury()
\* throws it answers 500 and stores nothing.
Authorize ==
    /\ WalletQuiet
    /\ clients.settled => \A r \in Requests : req[r].pc = "idle"
    /\ \/ UNCHANGED << userSignatures, auth >>
       \/ \E u \in clients.users, s \in clients.signatures, v \in ClientValues,
             treasury \in {ReadFailed, Read(1)} :
            LET a == AuthorizeAnswer(u, s, v, treasury) IN
            /\ userSignatures' = IF a.status = 200
                                  THEN MapSet(userSignatures, u, SignatureData(s, v))
                                  ELSE userSignatures
            /\ auth' = IF "/authorize" \in clients.keeps THEN a ELSE auth
    /\ UNCHANGED << variant, clients, wallet, gsr, now, challenge, balanceOf, allowance,
                    usedNonces, req >>

(* --------------------------- /transfer-tokens ------------------------ *)
\* the error strings of the responses, under the names of the error kinds
Success == "success"
InsufficientBalance == "Insufficient user balance"
InsufficientBalanceForTransfer == "Insufficient user balance for transfer"
InsufficientAllowance == "Insufficient allowance for transfer"
NoAuthorization == "No signature found for user"
PermitExpired == "Permit expired"
AmountMismatch == "Amount mismatch"
ApprovalFailed == "Failed to approve Permit2 contract"
InvalidSignatureFormat == "Invalid signature format"
InvalidNonceFormat == "Invalid nonce format"
TransferReverted == "Transfer failed: Permit2 signature invalid or expired"

\* a faulty handler that answers without returning, and so goes on
FinishStaying(q, response) == [q EXCEPT !.response = response]

\* return res.status(s).json(...)
Finish(q, response) == [q EXCEPT !.pc = "done", !.response = response]

\* the outer catch: res.status(500).json({ error: err.message }), after a
\* chain call of the request threw
FinishRpcError(q) ==
    [q EXCEPT !.pc = "done", !.rpcFailed = TRUE, !.response = Response(500, InternalError)]

\* the same catch, reached from approve(TREASURY_PULLER_ADDRESS, ...) or from
\* the wait for it
FinishApprovalThrew(q) == [FinishRpcError(q) EXCEPT !.approvalFailed = TRUE]

SetReq(r, q) == req' = [req EXCEPT ![r] = q]

\* if (allowance === 0n) ... else if (allowance < transferAmount) ...
NeedsApproval(allow, transferAmount) == allow = 0 \/ allow < transferAmount

\* a faulty balance check that stops only an empty account
BalanceZero(userBalance, transferAmount) == userBalance = 0

\* if (userBalance < transferAmount)
BalanceTooLow(userBalance, transferAmount) == userBalance < transferAmount

\* a faulty allowance check that stops only a missing allowance
AllowanceZero(allow, transferAmount) == allow = 0

\* if (allowance < transferAmount), on the allowance read before any approval
AllowanceTooLow(allow, transferAmount) == allow < transferAmount

\* a faulty freshness check that rejects already in the second of the deadline
DeadlineReached(currentTime, value) ==
    value.deadlineNumeric /\ currentTime >= value.deadline

\* if (currentTime > deadline): the deadline is converted to a number, and one
\* that converts to no number compares false
DeadlineExpired(currentTime, value) ==
    value.deadlineNumeric /\ currentTime > value.deadline

\* userSignatureData.value.permitted: undefined unless the value has it
HasPermitted(value) == value.shape = "permit2"

\* a faulty amount binding that lets a request for more than was signed pass
AmountExceeded(signedAmount, requestedAmount) == signedAmount.n > requestedAmount.n

\* transferAmount.toString(): the decimal digits of n, as a string
toString(n) == [n |-> n, isString |-> TRUE]

\* userSignatureData.value.permitted.amount as the client sent it
PermittedAmount(value) == [n |-> value.amount, isString |-> value.amountIsString]

\* if (signedAmount !== requestedAmount): equal only when both are strings of
\* the same digits
AmountDiffers(signedAmount, requestedAmount) == signedAmount # requestedAmount

\* a faulty length check that stops only an empty signature
SignatureEmpty(signature) == signature.len = 0

\* if (userSignatureData.signature.length !== 132)
SignatureLengthWrong(signature) == signature.len # ExpectedSignatureLength

\* if (isNaN(Number(nonce)))
NonceNotANumber(value) == ~value.nonceNumeric

\* userSignatures.get(userAddress)
Lookup(map, key) == IF key \in DOMAIN map THEN map[key] ELSE NoSignatureData

\* The body is parsed and validated: 400 when userAddress is missing or is no
\* address (the bodies of the model always carry an amount); otherwise the
\* handler awaits the first checkAuthorization.
\* Requests are numbered in the order they arrive.
TransferStart(r) ==
    /\ WalletQuiet
    /\ req[r].pc = "idle"
    /\ r <= clients.transfers
    /\ \A o \in Requests : o < r => req[o].pc # "idle"
    /\ \E u \in clients.transferUsers[r], h \in HumanAmounts :
         LET q == [IdleRequest EXCEPT !.userAddress = u, !.amount = h] IN
         SetReq(r, IF u = MissingAddress
                   THEN Finish(q, Response(400, MissingTransferFields))
                   ELSE IF ~isAddress(u)
                   THEN Finish(q, Response(400, InvalidAddressFormat))
                   ELSE [q EXCEPT
                      !.pc = "checkAuth",
                      !.expiredAtStart = /\ u \in DOMAIN userSignatures
                                         /\ DeadlineExpired(now, userSignatures[u].value)])
    /\ UNCHANGED << variant, clients, wallet, gsr, auth, now, userSignatures, challenge, balanceOf,
                    allowance, usedNonces >>

\* what treasuryPuller.checkAuthorization(userAddress, TOKEN_ADDRESS) gives:
\* [true, true], [false, false], [true, false], or an exception
AuthorizationStatus == {"valid", "notAuthorized", "expired", "failed"}

\* the contract object of src/server.js has no checkAuthorization: the call
\* throws a TypeError
AuthorizationResults(v) == IF v = "direct" THEN {"failed"} ELSE AuthorizationStatus

\* a faulty handler that enforces the authorization status
AfterCheckAuthorizationEnforced(q, result) ==
    IF result # "valid"
    THEN Finish([q EXCEPT !.chainRead = (variant = "permit2")],
                Response(403, "User not authorized"))
    ELSE [q EXCEPT !.pc = "reads", !.chainRead = (variant = "permit2")]

\* the code from the first checkAuthorization to the next await: the two
\* results are logged, and the handler goes on whatever they are
AfterCheckAuthorization(q, result) ==
    [q EXCEPT !.pc = "reads", !.chainRead = (variant = "permit2")]

\* checkAuthorization returned or threw: either way the handler goes on, and
\* awaits the five reads of Promise.all.  The contract object of src/server.js
\* has no checkAuthorization, so there the call throws before it reaches the
\* chain; part_000 declares it and reads the chain.
CheckAuthorization(r) ==
    /\ req[r].pc = "checkAuth"
    /\ \E result \in AuthorizationResults(variant) :
         SetReq(r, AfterCheckAuthorization(req[r], result))
    /\ UNCHANGED << variant, clients, wallet, gsr, auth, now, userSignatures, challenge, balanceOf,
                    allowance, usedNonces >>

\* the code from the Promise.all to the next await: scale the amount, first
\* balance check, then either approve(...) or balanceOf(treasury)
AfterReads(q, allow, userBalance, decimals) ==
    LET scaled == parseUnits(q.amount, decimals)
        q1 == [q EXCEPT !.allowance = allow, !.userBalance = userBalance,
                        !.decimals = decimals, !.transferAmount = scaled.v]
    IN  IF ~scaled.ok THEN Finish(q1, Response(500, InternalError))
        ELSE IF BalanceTooLow(userBalance, scaled.v)
             THEN Finish(q1, [Response(400, InsufficientBalance)
                                EXCEPT !.userBalance = userBalance,
                                       !.requestedAmount = scaled.v])
        ELSE IF NeedsApproval(allow, scaled.v)
             THEN [q1 EXCEPT !.pc = "approveSend"]
        ELSE [q1 EXCEPT !.pc = "treasuryBefore"]

Reads(r) ==
    /\ req[r].pc = "reads"
    /\ \/ SetReq(r, FinishRpcError([req[r] EXCEPT !.chainRead = TRUE,
                                                   !.preconditionReadFailed = TRUE]))
       \/ SetReq(r, AfterReads([req[r] EXCEPT !.chainRead = TRUE],
                               allowance[<<Account(req[r].userAddress), TREASURY_PULLER_ADDRESS>>],
                               balanceOf[Account(req[r].userAddress)], TokenDecimals))
    /\ UNCHANGED << variant, clients, wallet, gsr, auth, now, userSignatures, challenge, balanceOf,
                    allowance, usedNonces >>

\* approvalTx = await tokenContract.approve(TREASURY_PULLER_ADDRESS, max):
\* the transaction is sent from the treasury wallet
ApproveSend(r) ==
    /\ req[r].pc = "approveSend"
    /\ \/ SetReq(r, FinishApprovalThrew(req[r]))
       \/ SetReq(r, [req[r] EXCEPT !.pc = "approveWait", !.approvalTx = TRUE,
                                   !.writes = Append(@, "approve")])
    /\ UNCHANGED << variant, clients, wallet, gsr, auth, now, userSignatures, challenge, balanceOf,
                    allowance, usedNonces >>

\* a faulty approval that sets the allowance of the user of the call
ApproveWaitForUser(r) ==
    /\ req[r].pc = "approveWait"
    /\ \/ /\ SetReq(r, FinishApprovalThrew(req[r]))
          /\ UNCHANGED allowance
       \/ /\ SetReq(r, [req[r] EXCEPT !.pc = "treasuryBefore"])
          /\ allowance' = [allowance EXCEPT
                             ![<<req[r].userAddress, TREASURY_PULLER_ADDRESS>>] = MaxUint256]
    /\ UNCHANGED << variant, clients, wallet, gsr, auth, now, userSignatures, challenge, balanceOf,
                    usedNonces >>

\* await approvalTx.wait(): mined, it sets the wallet's own allowance
ApproveWait(r) ==
    /\ req[r].pc = "approveWait"
    /\ \/ /\ SetReq(r, FinishApprovalThrew(req[r]))
          /\ UNCHANGED allowance
       \/ /\ SetReq(r, [req[r] EXCEPT !.pc = "treasuryBefore"])
          /\ allowance' = [allowance EXCEPT
                             ![<<Wallet, TREASURY_PULLER_ADDRESS>>] = MaxUint256]
    /\ UNCHANGED << variant, clients, wallet, gsr, auth, now, userSignatures, challenge, balanceOf,
                    usedNonces >>

\* a faulty handler that reads the balance of the user again here
TreasuryBeforeRereading(r) ==
    /\ req[r].pc = "treasuryBefore"
    /\ \/ SetReq(r, FinishRpcError(req[r]))
       \/ SetReq(r, [req[r] EXCEPT !.pc = "finalAuth",
                                   !.userBalance = balanceOf[Account(req[r].userAddress)],
                                   !.treasuryBalanceBefore = balanceOf[Treasury]])
    /\ UNCHANGED << variant, clients, wallet, gsr, auth, now, userSignatures, challenge, balanceOf,
                    allowance, usedNonces >>

\* treasuryBalanceBefore = await tokenContract.balanceOf(treasuryAddress)
TreasuryBefore(r) ==
    /\ req[r].pc = "treasuryBefore"
    /\ \/ SetReq(r, FinishRpcError(req[r]))
       \/ SetReq(r, [req[r] EXCEPT !.pc = "finalAuth",
                                   !.treasuryBalanceBefore = balanceOf[Treasury]])
    /\ UNCHANGED << variant, clients, wallet, gsr, auth, now, userSignatures, challenge, balanceOf,
                    allowance, usedNonces >>

\* the code from the final checkAuthorization to the next await: second
\* balance check, allowance check, lookup in the store, getNetwork()
AfterFinalAuthorization(q, map) ==
    IF BalanceTooLow(q.userBalance, q.transferAmount)
    THEN Finish(q, [Response(400, InsufficientBalanceForTransfer)
                      EXCEPT !.userBalance = q.userBalance,
                             !.requestedAmount = q.transferAmount,
                             !.shortfall = q.transferAmount - q.userBalance])
    ELSE IF AllowanceTooLow(q.allowance, q.transferAmount)
    THEN Finish(q, [Response(400, InsufficientAllowance)
                      EXCEPT !.allowance = q.allowance,
                             !.requestedAmount = q.transferAmount,
                             !.shortfall = q.transferAmount - q.allowance])
    ELSE IF q.userAddress \notin DOMAIN map
    THEN Finish(q, Response(400, NoAuthorization))
    ELSE [q EXCEPT !.pc = "network", !.lookedUp = TRUE,
                   !.userSignatureData = Lookup(map, q.userAddress)]

\* the same code, given the result of the final checkAuthorization, which
\* is logged and not used
AfterFinalCheck(q, map, result) == AfterFinalAuthorization(q, map)

FinalAuthorization(r) ==
    /\ req[r].pc = "finalAuth"
    /\ \E result \in AuthorizationResults(variant) :
         SetReq(r, AfterFinalCheck(req[r], userSignatures, result))
    /\ UNCHANGED << variant, clients, wallet, gsr, auth, now, userSignatures, challenge, balanceOf,
                    allowance, usedNonces >>

\* network = await provider.getNetwork()
Network(r) ==
    /\ req[r].pc = "network"
    /\ \/ SetReq(r, FinishRpcError(req[r]))
       \/ SetReq(r, [req[r] EXCEPT !.pc = "probe"])
    /\ UNCHANGED << variant, clients, wallet, gsr, auth, now, userSignatures, challenge, balanceOf,
                    allowance, usedNonces >>

\* the code from the Permit2 probes to the next await: freshness, then the
\* amount binding (which reads value.permitted.amount and throws a TypeError,
\* caught by the outer catch, when value has no permitted), then
\* allowance(userAddress, PERMIT2_ADDRESS)
AfterProbe(q, currentTime) ==
    LET value == q.userSignatureData.value
        q1 == [q EXCEPT !.currentTime = currentTime]
    IN  IF DeadlineExpired(currentTime, value)
        THEN Finish(q1, [Response(400, PermitExpired)
                           EXCEPT !.expiredBy = currentTime - value.deadline])
        ELSE IF ~HasPermitted(value)
        THEN Finish(q1, Response(500, InternalError))
        ELSE IF AmountDiffers(PermittedAmount(value), toString(q.transferAmount))
        THEN Finish(q1, [Response(400, AmountMismatch)
                           EXCEPT !.signedAmount = value.amount,
                                  !.requestedAmount = q.transferAmount])
        ELSE [q1 EXCEPT !.pc = "permit2Allowance"]

\* await permit2Contract.name(): on failure the handler runs the second probe
Permit2Probe(r) ==
    /\ req[r].pc = "probe"
    /\ \/ SetReq(r, [req[r] EXCEPT !.pc = "probe2"])
       \/ SetReq(r, AfterProbe(req[r], now))
    /\ UNCHANGED << variant, clients, wallet, gsr, auth, now, userSignatures, challenge, balanceOf,
                    allowance, usedNonces >>

\* the second probe (name, version, DOMAIN_SEPARATOR): its failure is logged
Permit2Probe2(r) ==
    /\ req[r].pc = "probe2"
    /\ SetReq(r, AfterProbe(req[r], now))
    /\ UNCHANGED << variant, clients, wallet, gsr, auth, now, userSignatures, challenge, balanceOf,
                    allowance, usedNonces >>

\* a faulty pull that sends the handler's clock reading where the deadline of
\* the stored record belongs
PullCallClockDeadline(v, q) ==
    IF v = "permit2"
    THEN [NoPull EXCEPT !.fn = "pullTokensWithPermit2", !.user = q.userAddress,
                        !.token = TOKEN_ADDRESS, !.amount = q.transferAmount,
                        !.deadline = q.currentTime,
                        !.nonce = q.userSignatureData.value.nonce,
                        !.signature = q.userSignatureData.signature,
                        !.hasPermit = TRUE]
    ELSE [NoPull EXCEPT !.fn = "pullTokensDirect", !.user = q.userAddress,
                        !.token = TOKEN_ADDRESS, !.amount = q.transferAmount]

\* a faulty pull that makes up a nonce per call instead of sending the nonce
\* of the stored record
PullCallFreshNonce(v, q) ==
    IF v = "permit2"
    THEN [NoPull EXCEPT !.fn = "pullTokensWithPermit2", !.user = q.userAddress,
                        !.token = TOKEN_ADDRESS, !.amount = q.transferAmount,
                        !.deadline = q.userSignatureData.value.deadline,
                        !.nonce = q.userBalance,
                        !.signature = q.userSignatureData.signature,
                        !.hasPermit = TRUE]
    ELSE [NoPull EXCEPT !.fn = "pullTokensDirect", !.user = q.userAddress,
                        !.token = TOKEN_ADDRESS, !.amount = q.transferAmount]

\* a faulty Permit2 variant that falls back to the pull without a permit
PullCallAlwaysDirect(v, q) ==
    [NoPull EXCEPT !.fn = "pullTokensDirect", !.user = q.userAddress,
                   !.token = TOKEN_ADDRESS, !.amount = q.transferAmount]

\* the call that pulls the tokens: pullTokensDirect(user, token, amount) in
\* src/server.js, pullTokensWithPermit2(user, token, amount, deadline, nonce,
\* signature) in part_000
PullCall(v, q) ==
    IF v = "permit2"
    THEN [NoPull EXCEPT !.fn = "pullTokensWithPermit2", !.user = q.userAddress,
                        !.token = TOKEN_ADDRESS, !.amount = q.transferAmount,
                        !.deadline = q.userSignatureData.value.deadline,
                        !.nonce = q.userSignatureData.value.nonce,
                        !.signature = q.userSignatureData.signature,
                        !.hasPermit = TRUE]
    ELSE [NoPull EXCEPT !.fn = "pullTokensDirect", !.user = q.userAddress,
                        !.token = TOKEN_ADDRESS, !.amount = q.transferAmount]

\* a faulty inner try that gets the record from the store again for the
\* shape checks and the pull
ShapeAndPullRereading(q) ==
    LET d == IF q.userAddress \in DOMAIN userSignatures
             THEN userSignatures[q.userAddress] ELSE q.userSignatureData
    IN  IF d.signature.len # ExpectedSignatureLength
        THEN Finish(q, Response(400, InvalidSignatureFormat))
        ELSE IF ~d.value.nonceNumeric
        THEN Finish(q, Response(400, InvalidNonceFormat))
        ELSE [q EXCEPT !.pc = "pullSend",
                       !.pull = [PullCall(variant, [q EXCEPT !.userSignatureData = d])
                                   EXCEPT !.calledAt = now]]

\* the code of the inner try up to the pull: signature length, nonce, and
\* the call of the pull, at the time calledAt
ShapeAndPull(q) ==
    IF SignatureLengthWrong(q.userSignatureData.signature)
    THEN Finish(q, Response(400, InvalidSignatureFormat))
    ELSE IF NonceNotANumber(q.userSignatureData.value)
    THEN Finish(q, Response(400, InvalidNonceFormat))
    ELSE [q EXCEPT !.pc = "pullSend",
                   !.pull = [PullCall(variant, q) EXCEPT !.calledAt = now]]

\* if (permit2Allowance < transferAmount)
NeedsPermit2Approval(permit2Allowance, transferAmount) ==
    permit2Allowance < transferAmount

\* permit2Allowance = await tokenContract.allowance(userAddress, PERMIT2_ADDRESS);
\* a failed read is logged and the handler goes on to the pull
Permit2Allowance(r) ==
    /\ req[r].pc = "permit2Allowance"
    /\ \/ SetReq(r, ShapeAndPull([req[r] EXCEPT !.rpcFailed = TRUE,
                                                 !.preconditionReadFailed = TRUE]))
       \/ IF NeedsPermit2Approval(allowance[<<Account(req[r].userAddress), PERMIT2_ADDRESS>>],
                                  req[r].transferAmount)
          THEN SetReq(r, [req[r] EXCEPT !.pc = "approve2Send"])
          ELSE SetReq(r, ShapeAndPull(req[r]))
    /\ UNCHANGED << variant, clients, wallet, gsr, auth, now, userSignatures, challenge, balanceOf,
                    allowance, usedNonces >>

\* a faulty handler that logs a failed Permit2 approval and goes on to the pull
GoOnAfterApprovalFailure(q) ==
    ShapeAndPull([q EXCEPT !.rpcFailed = TRUE, !.approvalFailed = TRUE])

\* the inner catch of the Permit2 approval
FinishApprovalFailed(q) ==
    [q EXCEPT !.pc = "done", !.rpcFailed = TRUE, !.approvalFailed = TRUE,
              !.response = [Response(400, ApprovalFailed)
                              EXCEPT !.requestedAmount = q.transferAmount]]

\* permit2ApprovalTx = await tokenContract.approve(PERMIT2_ADDRESS, max)
Approve2Send(r) ==
    /\ req[r].pc = "approve2Send"
    /\ \/ SetReq(r, FinishApprovalFailed(req[r]))
       \/ SetReq(r, [req[r] EXCEPT !.pc = "approve2Wait",
                                   !.writes = Append(@, "approve2")])
    /\ UNCHANGED << variant, clients, wallet, gsr, auth, now, userSignatures, challenge, balanceOf,
                    allowance, usedNonces >>

\* await permit2ApprovalTx.wait(), then on to the pull
Approve2Wait(r) ==
    /\ req[r].pc = "approve2Wait"
    /\ \/ /\ SetReq(r, FinishApprovalFailed(req[r]))
          /\ UNCHANGED allowance
       \/ /\ SetReq(r, ShapeAndPull(req[r]))
          /\ allowance' = [allowance EXCEPT ![<<Wallet, PERMIT2_ADDRESS>>] = MaxUint256]
    /\ UNCHANGED << variant, clients, wallet, gsr, auth, now, userSignatures, challenge, balanceOf,
                    usedNonces >>

\* a faulty inner catch that submits the pull again
RetryPull(q, outcome) == [q EXCEPT !.pc = "pullSend", !.rpcFailed = TRUE]

\* a faulty inner catch that logs the error and answers success
AnswerSuccessAnyway(q, outcome) ==
    [q EXCEPT !.pc = "done", !.rpcFailed = TRUE, !.pull.outcome = outcome,
              !.response = Response(200, Success)]

\* the inner catch of the pull: status 400, "Transfer failed: ..."
FinishTransferReverted(q, outcome) ==
    [q EXCEPT !.pc = "done", !.rpcFailed = TRUE, !.pull.outcome = outcome,
              !.response = Response(400, TransferReverted)]

\* transferTx = await treasuryPuller.pull...(...): the node takes the
\* transaction, or refuses it
PullSend(r) ==
    /\ req[r].pc = "pullSend"
    /\ \/ SetReq(r, FinishTransferReverted(req[r], "refused"))
       \/ SetReq(r, [req[r] EXCEPT !.pc = "pullWait", !.pull.submitted = TRUE,
                                   !.writes = Append(@, "pull")])
    /\ UNCHANGED << variant, clients, wallet, gsr, auth, now, userSignatures, challenge, balanceOf,
                    allowance, usedNonces >>

\* The ledger executes a pull only if the user holds the amount and, for a
\* pull that carries a nonce, the nonce is not in the owner's bitmap.
LedgerAccepts(pull) ==
    /\ balanceOf[Account(pull.user)] >= pull.amount
    /\ pull.hasPermit => <<Account(pull.user), pull.nonce>> \notin usedNonces

LedgerExecute(pull) ==
    /\ balanceOf' = [balanceOf EXCEPT ![Account(pull.user)] = @ - pull.amount,
                                      ![Treasury] = @ + pull.amount]
    /\ usedNonces' = IF pull.hasPermit
                     THEN usedNonces \cup {<<Account(pull.user), pull.nonce>>}
                     ELSE usedNonces

\* transferReceipt = await transferTx.wait(): the transaction reverted; or it
\* was executed and the receipt arrived; or it was executed and the wait failed
PullWait(r) ==
    /\ req[r].pc = "pullWait"
    /\ \/ /\ SetReq(r, FinishTransferReverted(req[r], "reverted"))
          /\ UNCHANGED << balanceOf, usedNonces >>
       \/ /\ LedgerAccepts(req[r].pull)
          /\ LedgerExecute(req[r].pull)
          /\ \/ SetReq(r, [req[r] EXCEPT !.pc = "finalBalances", !.pull.outcome = "ok",
                                         !.pull.receipt = TRUE])
             \/ SetReq(r, FinishTransferReverted(req[r], "ok"))
    /\ UNCHANGED << variant, clients, wallet, gsr, auth, now, userSignatures, challenge, allowance >>

\* the success response, from the two balances read after the pull
SuccessResponse(q, userBalanceAfter, treasuryBalanceAfter) ==
    [Response(200, Success) EXCEPT
        !.requestedAmount = q.transferAmount,
        !.approvalRequired = q.approvalTx,
        !.userAfter = userBalanceAfter,
        !.treasuryReceived = treasuryBalanceAfter - q.treasuryBalanceBefore]

\* a faulty handler that removes the record from the store once the pull
\* it authorized has succeeded
FinalBalancesConsuming(r) ==
    /\ req[r].pc = "finalBalances"
    /\ \/ /\ SetReq(r, FinishRpcError(req[r]))
          /\ UNCHANGED userSignatures
       \/ /\ SetReq(r, Finish(req[r], SuccessResponse(req[r], balanceOf[Account(req[r].userAddress)],
                                                      balanceOf[Treasury])))
          /\ userSignatures' = [k \in (DOMAIN userSignatures) \ {req[r].userAddress}
                                   |-> userSignatures[k]]
    /\ UNCHANGED << variant, clients, wallet, gsr, auth, now, challenge, balanceOf,
                    allowance, usedNonces >>

\* [userBalanceAfter, treasuryBalanceAfter] = await Promise.all([...])
FinalBalances(r) ==
    /\ req[r].pc = "finalBalances"
    /\ \/ SetReq(r, FinishRpcError(req[r]))
       \/ SetReq(r, Finish(req[r], SuccessResponse(req[r], balanceOf[Account(req[r].userAddress)],
                                                   balanceOf[Treasury])))
    /\ UNCHANGED << variant, clients, wallet, gsr, auth, now, userSignatures, challenge, balanceOf,
                    allowance, usedNonces >>

(* ----------------------------- /api/wallet --------------------------- *)
\* the addresses the clients of the wallet routes send
WalletAddresses == {UserA, UserB}

\* the wallet routes exist in part_000 only
WalletGuard ==
    /\ variant = "permit2" /\ TokenRoutesQuiet
    /\ wallet.calls < MaxWalletCalls

\* the call is counted and its route and HTTP status are noted
WalletCall(w, route, status) ==
    [w EXCEPT !.last = route, !.status = status, !.calls = @ + 1]

WalletUnchanged ==
    UNCHANGED << variant, clients, gsr, auth, now, userSignatures, challenge,
                 balanceOf, allowance, usedNonces, req >>

\* POST /api/wallet/request-signature: 400 when walletAddress is missing,
\* otherwise global.signatureRequest is replaced by a pending request
RequestSignature ==
    /\ WalletGuard
    /\ \E a \in WalletAddresses \cup {MissingAddress} :
         wallet' = IF a = MissingAddress
                   THEN WalletCall(wallet, "request-signature", 400)
                   ELSE [WalletCall(wallet, "request-signature", 200) EXCEPT
                            !.signatureRequest =
                                [walletAddress |-> a, timestamp |-> now,
                                 status |-> "pending", completedAt |-> 0],
                            !.outstanding = a]
    /\ WalletUnchanged

\* GET /api/wallet/signature-request: the request if there is one and it is
\* pending, null otherwise
WalletSignatureRequest ==
    /\ WalletGuard
    /\ wallet' = [WalletCall(wallet, "signature-request", 200) EXCEPT
                     !.answer = IF wallet.signatureRequest.status = "pending"
                                THEN wallet.signatureRequest
                                ELSE NoWalletRequest]
    /\ WalletUnchanged

\* POST /api/wallet/signature-completed: if global.signatureRequest is set,
\* whatever its status, it is marked completed, with the time, and if
\* global.walletStatus is set it gets the signature 'signed' (the request
\* carries none) and the time; the answer is 200 in every case
SignatureCompleted ==
    /\ WalletGuard
    /\ LET w == [WalletCall(wallet, "signature-completed", 200) EXCEPT
                    !.outstanding = "none"]
       IN  wallet' =
             IF wallet.signatureRequest = NoWalletRequest
             THEN w
             ELSE [w EXCEPT
                     !.signatureRequest.status = "completed",
                     !.signatureRequest.completedAt = now,
                     !.walletStatus =
                         IF wallet.walletStatus = NoWalletStatus
                         THEN NoWalletStatus
                         ELSE [wallet.walletStatus EXCEPT
                                  !.signature = "signed",
                                  !.lastSignatureAt = now]]
    /\ WalletUnchanged

\* POST /api/wallet/status: 400 when a field is missing, otherwise
\* global.walletStatus is replaced (the new object has no signature)
StoreWalletStatus ==
    /\ WalletGuard
    /\ \E a \in {UserB, MissingAddress} :
         wallet' = IF a = MissingAddress
                   THEN WalletCall(wallet, "status", 400)
                   ELSE [WalletCall(wallet, "status", 200) EXCEPT
                            !.walletStatus =
                                [walletAddress |-> a, status |-> "connected",
                                 signature |-> "none", lastSignatureAt |-> 0]]
    /\ WalletUnchanged

(* --------------------------- the specification ----------------------- *)
Next ==
    \/ Tick
    \/ GetSignatureRequest
    \/ Authorize
    \/ RequestSignature
    \/ WalletSignatureRequest
    \/ SignatureCompleted
    \/ StoreWalletStatus
    \/ \E r \in Requests :
         \/ TransferStart(r)
         \/ CheckAuthorization(r)
         \/ Reads(r)
         \/ ApproveSend(r)
         \/ ApproveWait(r)
         \/ TreasuryBefore(r)
         \/ FinalAuthorization(r)
         \/ Network(r)
         \/ Permit2Probe(r)
         \/ Permit2Probe2(r)
         \/ Permit2Allowance(r)
         \/ Approve2Send(r)
         \/ Approve2Wait(r)
         \/ PullSend(r)
         \/ PullWait(r)
         \/ FinalBalances(r)

\* one transfer call
Spec == Init /\ [][Next]_vars

\* the steps of the handler of call r that follow an await, each of which a
\* chain call that returns or fails makes happen
TransferStep(r) ==
    \/ CheckAuthorization(r)
    \/ Reads(r)
    \/ ApproveSend(r)
    \/ ApproveWait(r)
    \/ TreasuryBefore(r)
    \/ FinalAuthorization(r)
    \/ Network(r)
    \/ Permit2Probe(r)
    \/ Permit2Probe2(r)
    \/ Permit2Allowance(r)
    \/ Approve2Send(r)
    \/ Approve2Wait(r)
    \/ PullSend(r)
    \/ PullWait(r)
    \/ FinalBalances(r)

\* one transfer call, every chain call of which returns or fails: a handler
\* that awaits a chain call is resumed.  Nothing makes a client call.
SpecLive == Init /\ [][Next]_vars /\ \A r \in Requests : WF_vars(TransferStep(r))

\* one transfer call; challenges are sent back
SpecChallenge == InitChallenge /\ [][Next]_vars

\* two transfer calls of one user
SpecSameUser == InitSameUser /\ [][Next]_vars

\* one transfer call, of either user, after the authorizations
SpecSettled == InitSettled /\ [][Next]_vars

\* two transfer calls of different users, after the authorizations
SpecTwoUsers == InitTwoUsers /\ [][Next]_vars

\* one transfer call; the answers of /authorize are kept
SpecAuthorize == InitAuthorize /\ [][Next]_vars

\* one transfer call; the answers of /get-signature-request are kept
SpecSignatureRequest == InitSignatureRequest /\ [][Next]_vars

-----------------------------------------------------------------------------
\* Properties of /authorize and /transfer-tokens

\* C1: a transfer call that finds in the store the value /get-signature-request
\* issued, sent back unchanged with a signature of the right length, for the
\* amount of the call, before its deadline, with balance and allowance enough
\* and no chain call failing, submits the pull and answers success.
C1_ChallengeFlowSucceeds ==
    \A r \in Requests :
        LET q == req[r]
            v == q.userSignatureData.value
        IN  ( /\ q.pc = "done" /\ ~q.rpcFailed /\ q.lookedUp
              /\ challenge # NoValue /\ v = challenge
              /\ ~SignatureLengthWrong(q.userSignatureData.signature)
              /\ v.amount = q.transferAmount
              /\ q.currentTime <= v.deadline
              /\ q.userBalance >= q.transferAmount
              /\ q.allowance >= q.transferAmount )
            => (q.pull.submitted /\ q.response.status = 200)

\* C2: every record of the store holds a signature that verifies against the
\* address it is stored under.
C2_StoreHoldsVerifiedSignatures ==
    \A u \in DOMAIN userSignatures : userSignatures[u].signature.signer = u

\* C3: a transfer call for a user with no record in the store, none of whose
\* chain reads failed, answers NoAuthorization and has sent no transaction.
C3_NoRecordNoTransaction ==
    \A r \in Requests :
        ( /\ req[r].pc = "done" /\ ~req[r].rpcFailed
          /\ req[r].userAddress \notin DOMAIN userSignatures )
        => (req[r].response.error = NoAuthorization /\ req[r].writes = <<>>)

\* C4: a transfer call that read an unexpired record whose signed amount is
\* not the scaled amount of the call answers AmountMismatch with both amounts
\* and has sent no transaction.
C4_MismatchAnswered ==
    \A r \in Requests :
        LET q == req[r]
            v == q.userSignatureData.value
        IN  ( /\ q.pc = "done" /\ ~q.rpcFailed /\ q.lookedUp
              /\ v # NoValue /\ ~DeadlineExpired(q.currentTime, v)
              /\ v.amount # q.transferAmount )
            => ( /\ q.response.error = AmountMismatch
                 /\ q.response.signedAmount = v.amount
                 /\ q.response.requestedAmount = q.transferAmount
                 /\ q.writes = <<>> )

\* C5: a transfer call that arrives when the store holds an expired record
\* for its user, and that does not read a later unexpired record in its
\* place, answers PermitExpired with a positive expiredBy and submits no pull.
C5_ExpiredAnswered ==
    \A r \in Requests :
        LET q == req[r]
        IN  ( /\ q.pc = "done" /\ ~q.rpcFailed /\ q.expiredAtStart
              /\ q.lookedUp => DeadlineExpired(q.currentTime, q.userSignatureData.value) )
            => ( /\ q.response.error = PermitExpired
                 /\ q.response.expiredBy > 0
                 /\ q.pull.fn = "none" )

\* C6: no pull is called at a time later than the deadline of the record the
\* call read.
C6_NoPullAfterDeadline ==
    \A r \in Requests :
        LET q == req[r]
            v == q.userSignatureData.value
        IN  (q.pull.fn # "none" /\ v.deadlineNumeric) => q.pull.calledAt <= v.deadline

\* C7: every pull a transfer call makes is for exactly the amount of the
\* record it read (permitted.amount, the field the handler takes as the
\* signed amount): never for a part of it, never for another amount.
C7_PullAmountIsSignedAmount ==
    \A r \in Requests :
        LET q == req[r]
            v == q.userSignatureData.value
        IN  q.pull.fn # "none" =>
                (HasPermitted(v) /\ q.pull.amount = v.amount)

\* a call for the amount of the record it read has had its pull executed
C7_Witness ==
    \E r \in Requests :
        /\ req[r].pull.outcome = "ok"
        /\ req[r].userSignatureData.value = PermitValid
        /\ req[r].pull.amount = PermitValid.amount

C9_RecordPaysOnce ==
    \A r1, r2 \in Requests :
        ( /\ r1 # r2 /\ variant = "permit2"
          /\ req[r1].pull.outcome = "ok" /\ req[r2].pull.outcome = "ok"
          /\ req[r1].userAddress = req[r2].userAddress )
        => req[r1].userSignatureData # req[r2].userSignatureData

\* a call succeeded, and a later call for the same user and amount, which saw
\* the balance the first pull left and read the same record, had its pull
\* reverted
C9_Witness ==
    \E r1, r2 \in Requests :
        /\ variant = "permit2"
        /\ req[r1].response.status = 200
        /\ req[r2].pc = "done" /\ req[r2].pull.outcome = "reverted"
        /\ req[r2].userAddress = req[r1].userAddress
        /\ req[r2].transferAmount = req[r1].transferAmount
        /\ req[r2].userBalance = req[r1].userBalance - req[r1].transferAmount
        /\ req[r2].userSignatureData = req[r1].userSignatureData

\* C10: in the Permit2 variant, of two finished calls that both passed every
\* check on the same record and called the pull, at most one pull was
\* executed, and if one was, the other call was answered TransferReverted.
C10_OneOfTwoPullsSucceeds ==
    \A r1, r2 \in Requests :
        ( /\ r1 # r2 /\ variant = "permit2"
          /\ req[r1].pc = "done" /\ req[r2].pc = "done"
          /\ req[r1].pull.fn # "none" /\ req[r2].pull.fn # "none"
          /\ req[r1].userSignatureData = req[r2].userSignatureData
          /\ req[r1].pull.outcome = "ok" )
        => ( /\ req[r2].pull.outcome # "ok"
             /\ req[r2].response.error = TransferReverted )

\* both calls have passed every check on the same record and neither pull
\* has been submitted yet
C10_Witness ==
    /\ variant = "permit2"
    /\ req[1].pc = "pullSend" /\ req[2].pc = "pullSend"
    /\ req[1].userAddress = req[2].userAddress
    /\ req[1].userSignatureData = req[2].userSignatureData
    /\ ~req[1].pull.submitted /\ ~req[2].pull.submitted


\* C11: when two calls are for different users, each successful one reports
\* as treasury.received the amount of its own pull, and the record it used is
\* the one stored under its own user.
C11_NoInterference ==
    \A r1, r2 \in Requests :
        ( /\ r1 # r2
          /\ req[r2].pc # "idle"
          /\ req[r1].userAddress # req[r2].userAddress
          /\ req[r1].response.status = 200 )
        => ( /\ req[r1].response.treasuryReceived = req[r1].pull.amount
             /\ req[r1].userSignatureData = Lookup(userSignatures, req[r1].userAddress) )

\* C12: a call whose user holds the amount, has allowed the puller less than
\* the amount, and has stored a valid authorization for the amount, no chain
\* call failing, sends an approval, then the pull, and answers success with
\* approval.required true and the balance after = balance before - amount.
C12_ApprovalThenSuccess ==
    \A r \in Requests :
        LET q == req[r]
        IN  ( /\ q.pc = "done" /\ ~q.rpcFailed /\ q.decimals # 0
              /\ q.userBalance >= q.transferAmount
              /\ q.allowance < q.transferAmount
              /\ q.userAddress = SigA.signer
              /\ Lookup(userSignatures, q.userAddress) = SignatureData(SigA, PermitValid)
              /\ q.transferAmount = PermitValid.amount )
            => ( /\ q.response.status = 200
                 /\ q.response.approvalRequired
                 /\ q.response.userAfter = q.userBalance - q.transferAmount
                 /\ q.writes = <<"approve", "pull">> )

C14_ShortfallReported ==
    \A r \in Requests :
        LET q == req[r]
        IN  ( /\ q.pc = "done" /\ q.response.status # 500 /\ q.decimals # 0
              /\ q.userBalance < q.transferAmount )
            => ( /\ q.response.error = InsufficientBalance
                 /\ q.response.shortfall = q.transferAmount - q.userBalance
                 /\ q.writes = <<>> )

\* C14: a call that read a balance below the amount answers 400
\* InsufficientBalance with the balance and the requested amount, and no
\* shortfall; it has sent no transaction and called no pull.
C14_BalanceReported ==
    \A r \in Requests :
        LET q == req[r]
        IN  ( /\ q.decimals # 0 /\ q.userBalance < q.transferAmount )
            => ( /\ q.writes = <<>> /\ q.pull.fn = "none"
                 /\ (q.pc = "done" /\ q.response.status # 500) =>
                        /\ q.response.status = 400
                        /\ q.response.error = InsufficientBalance
                        /\ q.response.userBalance = q.userBalance
                        /\ q.response.requestedAmount = q.transferAmount
                        /\ q.response.shortfall = NoResponse.shortfall )

\* UserB, who holds one token, asked for two and was answered
\* InsufficientBalance
C14_Witness ==
    \E r \in Requests :
        /\ req[r].response.error = InsufficientBalance
        /\ req[r].userAddress = UserB
        /\ req[r].userBalance = Unit /\ req[r].transferAmount = 2 * Unit

C16_ShapeRejectedBeforeChain ==
    \A r \in Requests :
        LET q == req[r]
        IN  ( /\ q.pc = "done" /\ ~q.rpcFailed
              /\ Lookup(userSignatures, q.userAddress) = SignatureData(SigShort, PermitValid)
              /\ q.transferAmount = PermitValid.amount
              /\ q.userBalance >= q.transferAmount
              /\ q.allowance >= q.transferAmount )
            => ( /\ q.response.error = InvalidSignatureFormat
                 /\ ~q.chainRead
                 /\ q.writes = <<>> )

\* C17: when no chain call fails, the error a call answers is that of the
\* first step that fails in the order lookup, freshness, amount binding,
\* balance, allowance, signature shape, judged on the stored record and on
\* the balance and allowance the call read.
C17_EarliestFailureAnswered ==
    \A r \in Requests :
        LET q == req[r]
            present == q.userAddress \in DOMAIN userSignatures
            d == Lookup(userSignatures, q.userAddress)
            earliest ==
                IF ~present THEN NoAuthorization
                ELSE IF q.expiredAtStart THEN PermitExpired
                ELSE IF d.value.amount # q.transferAmount THEN AmountMismatch
                ELSE IF q.userBalance < q.transferAmount THEN InsufficientBalance
                ELSE IF q.allowance < q.transferAmount THEN InsufficientAllowance
                ELSE IF d.signature.len # ExpectedSignatureLength THEN InvalidSignatureFormat
                ELSE IF ~d.value.nonceNumeric THEN InvalidNonceFormat
                ELSE "none"
        IN  ( /\ q.pc = "done" /\ ~q.rpcFailed /\ q.decimals # 0
              /\ q.expiredAtStart \/ ~DeadlineExpired(now, d.value)
              /\ earliest # "none" )
            => q.response.error = earliest

\* C18: a call submits the pull at most once and writes nothing to the chain
\* after it; a call whose pull was refused, reverted, or executed without the
\* receipt arriving, has ended with 400 TransferReverted.
C18_PullSubmittedOnce ==
    \A r \in Requests :
        LET q == req[r]
        IN  /\ Cardinality({i \in DOMAIN q.writes : q.writes[i] = "pull"}) <= 1
            /\ q.pull.submitted => q.writes[Len(q.writes)] = "pull"
            /\ ( \/ q.pull.outcome \in {"refused", "reverted"}
                 \/ q.pull.outcome = "ok" /\ ~q.pull.receipt )
               => ( /\ q.pc = "done" /\ q.response.status = 400
                    /\ q.response.error = TransferReverted )

\* a submitted pull reverted and the call ended with TransferReverted, its
\* pull being its last write
C18_Witness ==
    \E r \in Requests :
        /\ req[r].pull.submitted /\ req[r].pull.outcome = "reverted"
        /\ req[r].pc = "done" /\ req[r].response.error = TransferReverted
        /\ req[r].writes[Len(req[r].writes)] = "pull"

\* C19: a call that answered success has submitted its pull and obtained the
\* receipt of it.
C19_SuccessAfterReceipt ==
    \A r \in Requests :
        req[r].response.status = 200 =>
            /\ req[r].pull.submitted
            /\ req[r].pull.receipt
            /\ req[r].pull.outcome = "ok"

\* a call answered success, and its pull had been submitted and confirmed
C19_Witness ==
    \E r \in Requests :
        /\ req[r].response.status = 200 /\ req[r].response.error = Success
        /\ req[r].pull.submitted /\ req[r].pull.receipt

\* C20: a call one of whose approvals failed, at submission or in the wait,
\* has ended with an error response and has called no pull.
C20_FailedApprovalStops ==
    \A r \in Requests :
        req[r].approvalFailed =>
            /\ req[r].pc = "done"
            /\ req[r].response.status \in {400, 500}
            /\ req[r].response.error \in {ApprovalFailed, InternalError}
            /\ req[r].pull.fn = "none"

\* the Permit2 approval was submitted, its wait failed, and the call ended
\* with ApprovalFailed
C20_Witness ==
    \E r \in Requests :
        /\ req[r].approvalFailed
        /\ req[r].writes = <<"approve2">>
        /\ req[r].response.error = ApprovalFailed

\* C21: a call one of whose precondition reads failed (the user's balance,
\* the allowance to the treasury puller, the allowance to Permit2) has ended
\* with an error response and has called no pull.
C21_FailedReadAborts ==
    \A r \in Requests :
        req[r].preconditionReadFailed =>
            /\ req[r].pc = "done"
            /\ req[r].response.status \in {400, 500}
            /\ req[r].pull.fn = "none"

-----------------------------------------------------------------------------
\* Properties of the store and of /get-signature-request

\* C22: an /authorize that answers 200 leaves under its address the signature
\* and value of its body and leaves the record of every other address as it
\* was; no other step changes the store; and the lookup of a transfer call
\* gets the record the store holds under the address of the call.  So the
\* record a call reads is that of the last /authorize that completed for its
\* address.
C22_LookupReadsLastAuthorize ==
    [][ LET stored == auth' # auth /\ auth'.status = 200
            u == auth'.userAddress
        IN  /\ stored =>
                  /\ DOMAIN userSignatures' = (DOMAIN userSignatures) \cup {u}
                  /\ userSignatures'[u] =
                         [signature |-> auth'.signature, value |-> auth'.value]
                  /\ \A k \in (DOMAIN userSignatures) \ {u} :
                         userSignatures'[k] = userSignatures[k]
            /\ ~stored => userSignatures' = userSignatures
            /\ \A r \in Requests :
                  (~req[r].lookedUp /\ req'[r].lookedUp) =>
                      /\ req'[r].userAddress \in DOMAIN userSignatures
                      /\ req'[r].userSignatureData =
                             userSignatures[req'[r].userAddress]
      ]_vars

\* the last /authorize stored a record for UserB, and a call of UserA has
\* read the record of UserA, which is another one
C22_Witness ==
    /\ auth.status = 200 /\ auth.userAddress = UserB
    /\ userSignatures[UserB] = SignatureData(SigA, PermitExpiring)
    /\ req[1].lookedUp /\ req[1].userAddress = UserA
    /\ req[1].userSignatureData = SignatureData(SigA, PermitValid)
    /\ userSignatures[UserA] = req[1].userSignatureData

\* C23: no step of a transfer call changes the store: whatever the call goes
\* on to answer, each of its steps leaves every record as it was.
C23_TransferLeavesStore ==
    [][ req' # req => userSignatures' = userSignatures ]_vars

\* a call has answered success and the record it used is still the record of
\* its user
C23_Witness ==
    \E r \in Requests :
        /\ req[r].pc = "done" /\ req[r].response.status = 200
        /\ req[r].userAddress \in DOMAIN userSignatures
        /\ userSignatures[req[r].userAddress] = req[r].userSignatureData

\* C24: a /get-signature-request call, whatever its body and answer, leaves
\* the store, the balances, the allowances and the used nonces as they were,
\* and the only chain calls it makes are the reads decimals() and
\* getNetwork().
C24_SignatureRequestHasNoEffect ==
    [][ gsr' # gsr =>
          /\ UNCHANGED << userSignatures, balanceOf, allowance, usedNonces, req >>
          /\ \A i \in DOMAIN gsr'.chainCalls :
                gsr'.chainCalls[i] \in {"decimals", "getNetwork"}
      ]_vars

\* a challenge has been issued after both reads, and the store is empty
C24_Witness ==
    /\ gsr.status = 200 /\ gsr.value # NoValue
    /\ gsr.chainCalls = <<"decimals", "getNetwork">>
    /\ DOMAIN userSignatures = {}

\* C25: /get-signature-request answers 400, with no challenge, a body whose
\* address is valid and whose amount is no number or is negative (unless a
\* chain read of the call fails); and no challenge it issues has a negative
\* amount.
C25_BadAmountRejected ==
    /\ ( /\ isAddress(gsr.userAddress) /\ ~gsr.rpcFailed
         /\ ~gsr.amount.numeric \/ gsr.amount.negative )
       => (gsr.status = 400 /\ gsr.value = NoValue)
    /\ gsr.status = 200 => gsr.value.amount >= 0

\* C26: for a valid address and a numeric amount with at most TokenDecimals
\* fractional digits, when no chain read fails, the challenge is issued and
\* its value.amount is the decimal string of amount * 10^TokenDecimals
\* exactly: with f the number of fractional digits,
\* value.amount * 10^f = (the digits of the amount as an integer) * 10^TokenDecimals.
C26_ChallengeAmountExact ==
    LET h == gsr.amount
        f == Len(h.frac)
        digits == (IF h.negative THEN -1 ELSE 1) * (h.whole * Pow10(f) + DigitsValue(h.frac))
    IN  ( /\ gsr.status # 0 /\ gsr.userAddress \in Users /\ ~gsr.rpcFailed
          /\ h.numeric /\ f <= TokenDecimals )
        => ( /\ gsr.status = 200
             /\ gsr.value.amountIsString
             /\ gsr.value.amount * Pow10(f) = digits * Pow10(TokenDecimals) )

\* the amount "1.5" was asked for and the challenge carries 15 * 10^(TokenDecimals - 1)
C26_Witness ==
    /\ gsr.status = 200
    /\ gsr.amount = Amount(FALSE, 1, <<5>>)
    /\ gsr.value.amount = 15 * Pow10(TokenDecimals - 1)

\* C27: a body with a missing field or with a userAddress that is no address
\* is answered 400 by /get-signature-request, /authorize and /transfer-tokens
\* before the handler has made a chain call, and nothing is stored for it: no
\* key of the store is a string that is no address.
C27_MalformedRejectedFirst ==
    /\ ( /\ auth.status # 0
         /\ \/ ~isAddress(auth.userAddress)
            \/ auth.signature = NoSignature
            \/ auth.value = NoValue )
       => (auth.status = 400 /\ auth.chainCalls = <<>>)
    /\ (gsr.status # 0 /\ ~isAddress(gsr.userAddress))
       => (gsr.status = 400 /\ gsr.chainCalls = <<>>)
    /\ \A r \in Requests :
         (req[r].pc # "idle" /\ ~isAddress(req[r].userAddress))
         => ( /\ req[r].pc = "done" /\ req[r].response.status = 400
              /\ ~req[r].chainRead /\ req[r].writes = <<>> )
    /\ \A k \in DOMAIN userSignatures : isAddress(k)

\* C28: every rejection for malformed input (an address that is missing or
\* no address, a missing field, an amount that is no number) has status 400,
\* and every answer to a failed chain call (a failed read, a refused,
\* reverted or unconfirmed transaction) has status 500 or 502.
C28_StatusByErrorClass ==
    /\ ( /\ gsr.status # 0
         /\ \/ ~isAddress(gsr.userAddress)
            \/ ~gsr.rpcFailed /\ ~gsr.amount.numeric )
       => gsr.status = 400
    /\ gsr.rpcFailed => gsr.status \in {500, 502}
    /\ ( /\ auth.status # 0
         /\ \/ auth.userAddress = MissingAddress
            \/ auth.signature = NoSignature
            \/ auth.value = NoValue )
       => auth.status = 400
    /\ auth.rpcFailed => auth.status \in {500, 502}
    /\ \A r \in Requests :
         LET q == req[r]
         IN  /\ (q.pc = "done" /\ ~isAddress(q.userAddress)) => q.response.status = 400
             /\ ( /\ q.pc = "done" /\ q.rpcFailed
                  /\ q.response.error \in {InternalError, TransferReverted, ApprovalFailed} )
                => q.response.status \in {500, 502}

\* C29: an address that has a record in the store has one in every later
\* state, and the record changes only in the step of an /authorize for that
\* address that answers 200, which replaces it by the signature and value of
\* its body; the passing of time changes nothing, so a record whose deadline
\* has passed stays.
C29_RecordsStay ==
    [][ \A u \in DOMAIN userSignatures :
          /\ u \in DOMAIN userSignatures'
          /\ userSignatures'[u] # userSignatures[u] =>
                /\ auth' # auth /\ auth'.status = 200 /\ auth'.userAddress = u
                /\ userSignatures'[u] =
                       [signature |-> auth'.signature, value |-> auth'.value]
      ]_vars

\* a call was answered PermitExpired on a record whose deadline has passed,
\* and the record is still the one the store holds for its user
C29_Witness ==
    \E r \in Requests :
        /\ req[r].pc = "done" /\ req[r].response.error = PermitExpired
        /\ req[r].userAddress \in DOMAIN userSignatures
        /\ userSignatures[req[r].userAddress] = req[r].userSignatureData
        /\ now > req[r].userSignatureData.value.deadline

\* C30: a challenge issued when the clock reads t carries the deadline
\* t + 86400, as a number, and its domain.chainId is the chain id that the
\* getNetwork() of the same call returned.
C30_DeadlineAndChainId ==
    [][ (gsr' # gsr /\ gsr'.status = 200) =>
          /\ gsr'.value.deadlineNumeric
          /\ gsr'.value.deadline = now + DeadlineWindow
          /\ gsr'.chainCalls[Len(gsr'.chainCalls)] = "getNetwork"
          /\ gsr'.network.ok
          /\ gsr'.chainId = gsr'.network.v
      ]_vars

\* a challenge was issued in the second after the start, on the second of
\* the chains, and carries that second + 86400 and that chain id
C30_Witness ==
    /\ gsr.status = 200
    /\ now = 2 /\ gsr.value.deadline = 2 + DeadlineWindow
    /\ gsr.chainId = 137 /\ gsr.network = Read(137)

-----------------------------------------------------------------------------
\* Properties of the freshness step, of concurrency and of the wallet routes

\* C31 as stated: a call that has run the freshness step on a record whose
\* deadline is a number or a string of digits was answered PermitExpired
\* exactly when its clock reading was greater than the deadline; on a record
\* whose deadline is missing or anything else it is never answered
\* PermitExpired.
C31_NonNumeralNeverExpired ==
    \A r \in Requests :
        LET q == req[r]
            v == q.userSignatureData.value
            rejected == q.response.error = PermitExpired
        IN  (q.lookedUp /\ q.currentTime # 0) =>
                /\ v.deadlineNumeral => (rejected <=> q.currentTime > v.deadline)
                /\ ~v.deadlineNumeral => ~rejected

\* C31: a call that has run the freshness step on a record whose deadline
\* converts to a number was answered PermitExpired exactly when its clock
\* reading was greater than that number (equal passes; the empty string and
\* null convert to 0 and always expire); on a record whose deadline converts
\* to no number it is never answered PermitExpired.
C31_FreshnessStrict ==
    \A r \in Requests :
        LET q == req[r]
            v == q.userSignatureData.value
            rejected == q.response.error = PermitExpired
        IN  (q.lookedUp /\ q.currentTime # 0) =>
                /\ v.deadlineNumeric => (rejected <=> q.currentTime > v.deadline)
                /\ ~v.deadlineNumeric => ~rejected

\* a call whose clock read the very second of the deadline passed the
\* freshness step and succeeded
C31_Witness ==
    \E r \in Requests :
        /\ req[r].userSignatureData.value = PermitExpiring
        /\ req[r].currentTime = PermitExpiring.deadline
        /\ req[r].response.status = 200

\* C32: a transfer call gets its record from the store once: after the
\* lookup its record never changes, whatever /authorize does meanwhile; and
\* what it passes to the pull comes from that record: the amount is the
\* signed amount of the record and, in the Permit2 variant, the signature,
\* nonce and deadline are those of the record.
C32_OneConsistentRecord ==
    /\ [](\A r \in Requests :
            LET q == req[r]
                d == q.userSignatureData
            IN  q.pull.fn # "none" =>
                    /\ q.lookedUp
                    /\ q.pull.amount = d.value.amount
                    /\ d.signature.len = ExpectedSignatureLength
                    /\ d.value.nonceNumeric
                    /\ variant = "permit2" =>
                           /\ q.pull.signature = d.signature
                           /\ q.pull.nonce = d.value.nonce
                           /\ q.pull.deadline = d.value.deadline)
    /\ [][ \A r \in Requests :
              req[r].lookedUp =>
                  /\ req'[r].lookedUp
                  /\ req'[r].userSignatureData = req[r].userSignatureData ]_vars

\* an /authorize for the user of a call has replaced the record while the
\* call was in flight, and the call has called the pull with the signature
\* and deadline of the record it had read
C32_Witness ==
    \E r \in Requests :
        /\ variant = "permit2" /\ req[r].pull.fn # "none"
        /\ userSignatures[req[r].userAddress] # req[r].userSignatureData
        /\ req[r].pull.signature = req[r].userSignatureData.signature
        /\ req[r].pull.deadline = req[r].userSignatureData.value.deadline
        /\ req[r].pull.deadline # userSignatures[req[r].userAddress].value.deadline

C35_OtherCaseNoAuthorization ==
    \A r \in Requests :
        ( /\ req[r].pc = "done" /\ ~req[r].rpcFailed
          /\ req[r].userAddress = UserALower
          /\ Account(UserALower) \in DOMAIN userSignatures
          /\ UserALower \notin DOMAIN userSignatures )
        => ( /\ req[r].userSignatureData = NoSignatureData
             /\ req[r].response.error = NoAuthorization )

\* C36: an /authorize call that fails, with 400 because a field is missing or
\* with 500 because the contract could not be read, leaves the store as it
\* was, so the record stored before it is the one a later lookup gets.
C36_FailedAuthorizeLeavesStore ==
    [][ (auth' # auth /\ auth'.status \in {400, 500})
            => userSignatures' = userSignatures ]_vars

\* the last /authorize, for UserA with another value, failed on the contract
\* read, and a later transfer call of UserA has read the record stored before
C36_Witness ==
    /\ auth.status = 500 /\ auth.userAddress = UserA
    /\ auth.signature = SigA /\ auth.value = PermitExpiring
    /\ UserA \in DOMAIN userSignatures
    /\ userSignatures[UserA] = SignatureData(SigA, PermitValid)
    /\ req[1].lookedUp /\ req[1].userAddress = UserA
    /\ req[1].userSignatureData = SignatureData(SigA, PermitValid)

\* C38: GET /api/wallet/signature-request answers a request exactly when the
\* last accepted POST /api/wallet/request-signature has not been followed by
\* a POST /api/wallet/signature-completed, and the request it answers is that
\* one; a completed request becomes pending only by an accepted
\* request-signature; and a signature-completed call made while no request is
\* outstanding leaves the request and the wallet status as they were.
C38_WalletRequestLifecycle ==
    [][ LET called(route) ==
                wallet'.calls = wallet.calls + 1 /\ wallet'.last = route
        IN  /\ called("signature-request") =>
                  /\ (wallet'.answer # NoWalletRequest)
                         <=> (wallet.outstanding # "none")
                  /\ wallet'.answer # NoWalletRequest =>
                         /\ wallet'.answer.walletAddress = wallet.outstanding
                         /\ wallet'.answer.status = "pending"
            /\ ( /\ wallet.signatureRequest.status = "completed"
                 /\ wallet'.signatureRequest.status = "pending" )
                  => (called("request-signature") /\ wallet'.status = 200)
            /\ (called("signature-completed") /\ wallet.outstanding = "none") =>
                  /\ wallet'.signatureRequest = wallet.signatureRequest
                  /\ wallet'.walletStatus = wallet.walletStatus
      ]_vars

\* C37: when every chain call returns or fails, a transfer call that was
\* received is answered; it has an answer exactly when its handler has
\* returned; and from then on nothing of the call changes: no second answer,
\* no further chain call, no further transaction.
C37_AnsweredOnce ==
    /\ \A r \in Requests : (req[r].pc # "idle") ~> (req[r].pc = "done")
    /\ [](\A r \in Requests :
            (req[r].pc = "done") <=> (req[r].response # NoResponse))
    /\ [][\A r \in Requests : req[r].pc = "done" => req'[r] = req[r]]_vars

\* a call has gone all the way: it sent a transaction and answered success
C37_Witness ==
    \E r \in Requests :
        /\ req[r].pc = "done" /\ req[r].response.status = 200
        /\ req[r].pull.submitted /\ Len(req[r].writes) >= 1

\* C39: the second balance check never fires.  A call that has passed the
\* first check holds, up to the second, the balance and the scaled amount it
\* compared there, whatever has happened to the balance on the chain since;
\* so no call answers 'Insufficient user balance for transfer'.
C39_SecondBalanceCheckDead ==
    \A r \in Requests :
        /\ req[r].pc \in {"approveSend", "approveWait", "treasuryBefore", "finalAuth"}
              => req[r].userBalance >= req[r].transferAmount
        /\ req[r].response.error # InsufficientBalanceForTransfer

\* a call is about to run the second check for an amount the user no longer
\* holds: another call has pulled since it read the balance
C39_Witness ==
    \E r \in Requests :
        /\ req[r].pc = "finalAuth"
        /\ balanceOf[Account(req[r].userAddress)] < req[r].transferAmount
        /\ req[r].userBalance >= req[r].transferAmount

=============================================================================
